---- MODULE Spec2Model ----
(***************************************************************************)
(* A model of backend/app.py of pdf-master-pro: the request handlers of    *)
(* the PDF service, their upload validation, the page-range parser, the    *)
(* scratch directories and the uploads' streams.                           *)
(*                                                                         *)
(* Strings are sequences of one-character strings, so that lowercasing,    *)
(* substring search, stripping, splitting and integer parsing are computed *)
(* as the code computes them.                                              *)
(***************************************************************************)
EXTENDS Integers, Sequences, FiniteSets, TLC

VARIABLES
    op,       \* the handler serving the request ("idle" before a request)
    pc,       \* the handler's position
    files,    \* request.files: the uploads, each with its stream position
    form,     \* request.form: field name -> submitted string
    dirs,     \* the scratch directories that exist
    disk,     \* path (<<directory, file name>>) -> content, for live directories
    resp,     \* the response (status, body or artifact)
    hist      \* what the handler did so far (history of the request)

vars == <<op, pc, files, form, dirs, disk, resp, hist>>

(***************************** bounds **************************************)
\* longest submitted pages string
MaxLen == 4
\* longest submitted password
MaxPwLen == 2
\* most pages of an uploaded document
MaxPages == 3
\* most uploads of one request
MaxFiles == 2

(***************************** strings *************************************)
None == [none |-> TRUE]

Range(s) == {s[i] : i \in 1..Len(s)}

StringsUpTo(alphabet, n) == UNION {[1..k -> alphabet] : k \in 0..n}

Max(a, b) == IF a >= b THEN a ELSE b
Min(a, b) == IF a <= b THEN a ELSE b

\* str.strip(): leading and trailing whitespace removed
RECURSIVE Strip(_)
Strip(s) ==
    IF s = <<>> THEN s
    ELSE IF Head(s) = " " THEN Strip(Tail(s))
    ELSE IF s[Len(s)] = " " THEN Strip(SubSeq(s, 1, Len(s) - 1))
    ELSE s

\* str.replace(" ", "")
RemoveSpaces(s) == SelectSeq(s, LAMBDA c : c # " ")

\* str.split(","): the parts between the commas, empty parts kept
RECURSIVE SplitComma(_)
SplitComma(s) ==
    IF \A i \in 1..Len(s) : s[i] # ","
    THEN <<s>>
    ELSE LET k == CHOOSE i \in 1..Len(s) : s[i] = "," /\ \A j \in 1..(i - 1) : s[j] # ","
         IN <<SubSeq(s, 1, k - 1)>> \o SplitComma(SubSeq(s, k + 1, Len(s)))

\* part.split("-", 1) of a part that holds a dash: before and after the first dash
SplitFirstDash(part) ==
    LET k == CHOOSE i \in 1..Len(part) : part[i] = "-" /\ \A j \in 1..(i - 1) : part[j] # "-"
    IN <<SubSeq(part, 1, k - 1), SubSeq(part, k + 1, Len(part))>>

Digits == {"0", "1", "2", "3", "4", "5", "6", "7", "8", "9"}

DigitVal(c) ==
    CASE c = "0" -> 0 [] c = "1" -> 1 [] c = "2" -> 2 [] c = "3" -> 3 [] c = "4" -> 4
      [] c = "5" -> 5 [] c = "6" -> 6 [] c = "7" -> 7 [] c = "8" -> 8 [] c = "9" -> 9

DigitChar(d) ==
    CASE d = 0 -> "0" [] d = 1 -> "1" [] d = 2 -> "2" [] d = 3 -> "3" [] d = 4 -> "4"
      [] d = 5 -> "5" [] d = 6 -> "6" [] d = 7 -> "7" [] d = 8 -> "8" [] d = 9 -> "9"

RECURSIVE DecimalValue(_)
DecimalValue(s) ==
    IF s = <<>> THEN 0 ELSE 10 * DecimalValue(SubSeq(s, 1, Len(s) - 1)) + DigitVal(s[Len(s)])

IsDigits(s) == s # <<>> /\ \A i \in 1..Len(s) : s[i] \in Digits

\* int(s): surrounding whitespace ignored, an optional sign, then digits; anything
\* else raises ValueError (ok = FALSE)
IntParse(s) ==
    LET t == Strip(s) IN
    IF IsDigits(t) THEN [ok |-> TRUE, val |-> DecimalValue(t)]
    ELSE IF t # <<>> /\ Head(t) = "-" /\ IsDigits(Tail(t))
         THEN [ok |-> TRUE, val |-> 0 - DecimalValue(Tail(t))]
    ELSE [ok |-> FALSE, val |-> 0]

\* str(n) of n >= 0, as an f-string formats it
RECURSIVE IntToStr(_)
IntToStr(n) ==
    IF n < 10 THEN <<DigitChar(n)>> ELSE IntToStr(n \div 10) \o <<DigitChar(n % 10)>>

\* sorted(...) of a set of integers: ascending
RECURSIVE Sorted(_)
Sorted(S) ==
    IF S = {} THEN <<>>
    ELSE LET m == CHOOSE x \in S : \A y \in S : x <= y IN <<m>> \o Sorted(S \ {m})

UpperCase == <<"A", "B", "C", "D", "E", "F", "G", "H", "I", "J", "K", "L", "M",
               "N", "O", "P", "Q", "R", "S", "T", "U", "V", "W", "X", "Y", "Z">>
LowerCase == <<"a", "b", "c", "d", "e", "f", "g", "h", "i", "j", "k", "l", "m",
               "n", "o", "p", "q", "r", "s", "t", "u", "v", "w", "x", "y", "z">>

\* str.lower()
Lower(s) ==
    [i \in 1..Len(s) |->
        IF \E k \in 1..Len(UpperCase) : UpperCase[k] = s[i]
        THEN LowerCase[CHOOSE k \in 1..Len(UpperCase) : UpperCase[k] = s[i]]
        ELSE s[i]]

\* x in s, for strings: x is a substring of s
Contains(s, x) ==
    \E i \in 0..(Len(s) - Len(x)) : SubSeq(s, i + 1, i + Len(x)) = x

(***************************** uploads *************************************)
MIME_PDF == <<"a", "p", "p", "l", "i", "c", "a", "t", "i", "o", "n", "/", "p", "d", "f">>
EXT_PDF == <<".", "p", "d", "f">>
MIME_DOC == <<"a", "p", "p", "l", "i", "c", "a", "t", "i", "o", "n", "/", "v", "n", "d", ".", "o", "p", "e", "n", "x", "m", "l", "f", "o", "r", "m", "a", "t", "s", "-", "o", "f", "f", "i", "c", "e", "d", "o", "c", "u", "m", "e", "n", "t", ".", "w", "o", "r", "d", "p", "r", "o", "c", "e", "s", "s", "i", "n", "g", "m", "l", ".", "d", "o", "c", "u", "m", "e", "n", "t">>
EXT_DOCX == <<".", "d", "o", "c", "x">>
MIME_JPEG == <<"i", "m", "a", "g", "e", "/", "j", "p", "e", "g">>
EXT_JPG == <<".", "j", "p", "g">>
EXT_JPEG == <<".", "j", "p", "e", "g">>

ALLOWED_PDF == {MIME_PDF, EXT_PDF}
ALLOWED_DOC == {MIME_DOC, EXT_DOCX}
ALLOWED_IMG == {MIME_JPEG, EXT_JPG, EXT_JPEG}

\* _is_type(file_storage, allowed)
IsType(file_storage, allowed) ==
    LET filename == Lower(file_storage.filename)
        ctype == IF file_storage.mimetype # <<>> THEN Lower(file_storage.mimetype) ELSE <<>>
    IN  (\E x \in allowed : Contains(filename, x))
        \/ (\E x \in allowed : Contains(ctype, x))

\* request.files.get("file"): the first upload of the field, or None
GetFile(fs) == IF fs = <<>> THEN None ELSE fs[1]

\* not f: no upload, or an upload with an empty filename (FileStorage is falsy)
NotFile(f) == f = None \/ f.filename = <<>>

\* request.form.get(field, default)
FormGet(fm, field, default) == IF field \in DOMAIN fm THEN fm[field] ELSE default

(***************************** responses ***********************************)
\* a message: its fixed text and the file name formatted into it (none: <<>>)
Msg(text, filename) == [text |-> text, arg |-> filename]

\* return (message, status)
Error(message, status) ==
    [status |-> status, msg |-> message, name |-> "", out |-> None]

\* send_file / _send_bytes: the artifact as an attachment
SendFile(content, download_name) ==
    [status |-> 200, msg |-> Msg("", <<>>), name |-> download_name, out |-> content]

\* an exception that leaves the handler: Flask answers 500, and no file
Unhandled ==
    [status |-> 500, msg |-> Msg("Internal Server Error", <<>>), name |-> "", out |-> None]

NoResponse == [status |-> 0, msg |-> Msg("", <<>>), name |-> "", out |-> None]

\* a PDF document: its pages, whether it is encrypted, and with which password
Pdf(pages, encrypted, pwd) ==
    [kind |-> "pdf", pages |-> pages, encrypted |-> encrypted, pwd |-> pwd]

\* the N-page source document whose k-th page is <<"page", k>>
SourcePdf(n) == Pdf([k \in 1..n |-> <<"page", k>>], FALSE, <<>>)

\* content that is no document: a file of zero bytes
EmptyFile == [kind |-> "empty"]
\* content that is no document: bytes that are neither a PDF nor an image
Garbage == [kind |-> "garbage"]
\* what a collaborator wrote, from the content it was given
Produced(tool, content) == [kind |-> "produced", tool |-> tool, from |-> content]

\* PdfReader, pikepdf, Ghostscript and the converters can read the content: it is a
\* whole PDF document
ReadablePdf(content) == content.kind = "pdf"

\* a JPEG image, the k-th of its request
Image(k) == [kind |-> "jpg", id |-> k]

\* a .docx document
Docx == [kind |-> "docx"]

\* an upload: FileStorage with its declared name and type, its content, and how
\* much of its stream has been read
Upload(filename, mimetype, doc) ==
    [filename |-> filename, mimetype |-> mimetype, doc |-> doc, pos |-> 0]

NoHist ==
    [created |-> 0,          \* scratch directories created
     saved |-> 0,            \* uploads written to a scratch directory
     reads |-> 0,            \* collaborator calls on uploaded content
     selected |-> <<>>,      \* split: the parsed selection
     prior |-> [files |-> <<>>, form |-> <<>>],   \* the request before this one
     td |-> 0,               \* the scratch directory of the open scope
     i |-> 0,                \* loop index over the uploads
     writer |-> <<>>,        \* merge: the pages added so far
     image_paths |-> <<>>,   \* jpg-to-pdf: the paths collected
     packed |-> <<>>,        \* jpg-to-pdf: the contents handed to img2pdf
     gs |-> "none",          \* compress: how the Ghostscript attempt ended
     fallback_in |-> None]   \* compress: the content handed to pikepdf

(***************************** split ***************************************)
\* the characters a submitted pages string is made of
PageChars == {"1", "2", "3", "-", ",", " ", "a"}

NAME_A_PDF == <<"a", ".", "p", "d", "f">>
NAME_NOTES_TXT == <<"n", "o", "t", "e", "s", ".", "t", "x", "t">>
TEXT_PLAIN == <<"t", "e", "x", "t", "/", "p", "l", "a", "i", "n">>

\* faulty variant: a range that reaches beyond the document is rejected, not truncated
ClampedRange_reject(a, b, maxn) == IF a < 1 \/ b > maxn THEN {} ELSE a..b

\* the pages of a range part after clamping: range(max(1, a), min(maxn, b) + 1)
ClampedRange(a, b, maxn) == Max(1, a)..Min(maxn, b)

\* what a bare number adds to the selection: sel.add(int(part))
BareValue(v) == {v}

\* faulty variant: the selection sorted but not filtered to the document's pages
FilterSorted_unfiltered(sel, maxn) == Sorted(sel)

\* the final filter and sort: sorted(i for i in sel if 1 <= i <= maxn)
FilterSorted(sel, maxn) == Sorted({i \in sel : 1 <= i /\ i <= maxn})

\* the loop of parse_ranges over the parts from the i-th on; ok = FALSE when an
\* int() raised
RECURSIVE ParseParts(_, _, _, _)
ParseParts(parts, i, sel, maxn) ==
    IF i > Len(parts) THEN [ok |-> TRUE, sel |-> sel]
    ELSE LET part == parts[i] IN
         IF part = <<>> THEN ParseParts(parts, i + 1, sel, maxn)
         ELSE IF "-" \in Range(part)
         THEN LET ab == SplitFirstDash(part)
                  a == IntParse(ab[1])
                  b == IntParse(ab[2])
              IN  IF a.ok /\ b.ok
                  THEN ParseParts(parts, i + 1,
                                  sel \cup ClampedRange(a.val, b.val, maxn), maxn)
                  ELSE [ok |-> FALSE, sel |-> sel]
         ELSE LET v == IntParse(part)
              IN  IF v.ok
                  THEN ParseParts(parts, i + 1, sel \cup BareValue(v.val), maxn)
                  ELSE [ok |-> FALSE, sel |-> sel]

\* parse_ranges(spec, maxn): ok and the selected pages, or not ok (ValueError)
parse_ranges(spec, maxn) ==
    LET r == ParseParts(SplitComma(RemoveSpaces(spec)), 1, {}, maxn)
    IN  [ok |-> r.ok, val |-> IF r.ok THEN FilterSorted(r.sel, maxn) ELSE <<>>]

\* faulty variant: the field taken as submitted, without .strip()
PagesField_nostrip(fm) == FormGet(fm, "pages", <<>>)

\* request.form.get("pages", "").strip()
PagesField(fm) == Strip(FormGet(fm, "pages", <<>>))

\* pages or f"1-{len(reader.pages)}"
PagesOrAll(pages, n) == IF pages # <<>> THEN pages ELSE <<"1", "-">> \o IntToStr(n)

\* reader.pages[i - 1] raises IndexError outside -n..n-1; a negative index counts
\* from the end
PageIndexOk(reader, i) == 0 - Len(reader.pages) <= i - 1 /\ i - 1 < Len(reader.pages)

PageAt(reader, i) ==
    IF i - 1 >= 0 THEN reader.pages[i] ELSE reader.pages[Len(reader.pages) + i]

\* the writer's pages: reader.pages[i - 1] for i in selected, in that order
ExtractPages(reader, selected) == [k \in 1..Len(selected) |-> PageAt(reader, selected[k])]

SplitUploads ==
    {<<>>, <<Upload(NAME_NOTES_TXT, TEXT_PLAIN, SourcePdf(1))>>}
    \cup {<<Upload(NAME_A_PDF, MIME_PDF, SourcePdf(n))>> : n \in 0..MaxPages}

SplitForms ==
    {<<>>} \cup {[pages |-> s] : s \in StringsUpTo(PageChars, MaxLen)}

\* a split request arrives
SplitRequest ==
    /\ op = "idle"
    /\ \E fs \in SplitUploads, fm \in SplitForms :
          /\ files' = fs
          /\ form' = fm
    /\ op' = "split"
    /\ pc' = "start"
    /\ UNCHANGED <<dirs, disk, resp, hist>>

\* split_pdf()
split_pdf ==
    /\ op = "split" /\ pc = "start"
    /\ LET f == GetFile(files)
           pages == PagesField(form)
       IN  IF NotFile(f) \/ ~IsType(f, ALLOWED_PDF)
           THEN resp' = Error(Msg("PDF required", <<>>), 400) /\ hist' = hist
           ELSE IF ~ReadablePdf(f.doc)
           THEN resp' = Unhandled /\ hist' = [hist EXCEPT !.reads = @ + 1]
           ELSE LET reader == f.doc
                    n == Len(reader.pages)
                    selected == parse_ranges(PagesOrAll(pages, n), n)
                IN  /\ hist' = [hist EXCEPT !.reads = @ + 1, !.selected = selected.val]
                    /\ IF selected.ok
                          /\ \A k \in 1..Len(selected.val) : PageIndexOk(reader, selected.val[k])
                       THEN resp' = SendFile(Pdf(ExtractPages(reader, selected.val),
                                                 FALSE, <<>>), "split.pdf")
                       ELSE resp' = Unhandled
    /\ pc' = "done"
    /\ UNCHANGED <<op, files, form, dirs, disk>>

(***************************** protect, unlock *****************************)
\* the characters a submitted password is made of
PwChars == {" ", "p", "q"}

PdfUploads ==
    {<<>>, <<Upload(NAME_NOTES_TXT, TEXT_PLAIN, SourcePdf(1))>>}
    \cup {<<Upload(NAME_A_PDF, MIME_PDF, SourcePdf(n))>> : n \in 0..MaxPages}

PasswordForms ==
    {<<>>} \cup {[password |-> s] : s \in StringsUpTo(PwChars, MaxPwLen)}

\* request.form.get("password", "").strip()
PasswordField(fm) == Strip(FormGet(fm, "password", <<>>))

\* writer.encrypt(pwd): the pages under the user password pwd (the owner password
\* defaults to it)
Encrypt(pages, pwd) == Pdf(pages, TRUE, pwd)

\* faulty variant: the result of reader.decrypt is not looked at
Decrypt_unchecked(reader, pwd) == TRUE

\* reader.decrypt(pwd): truthy iff pwd is the document's password
Decrypt(reader, pwd) == pwd = reader.pwd

\* a protect request arrives
ProtectRequest ==
    /\ op = "idle"
    /\ \E fs \in PdfUploads, fm \in PasswordForms :
          /\ files' = fs
          /\ form' = fm
    /\ op' = "protect"
    /\ pc' = "start"
    /\ UNCHANGED <<dirs, disk, resp, hist>>

\* protect_pdf()
protect_pdf ==
    /\ op = "protect" /\ pc = "start"
    /\ LET f == GetFile(files)
           pwd == PasswordField(form)
       IN  IF NotFile(f) \/ ~IsType(f, ALLOWED_PDF) \/ pwd = <<>>
           THEN resp' = Error(Msg("PDF and password required", <<>>), 400) /\ hist' = hist
           ELSE IF ~ReadablePdf(f.doc)
           THEN resp' = Unhandled /\ hist' = [hist EXCEPT !.reads = @ + 1]
           ELSE LET reader == f.doc
                IN  /\ hist' = [hist EXCEPT !.reads = @ + 1]
                    /\ resp' = SendFile(Encrypt(reader.pages, pwd), "protected.pdf")
    /\ pc' = "done"
    /\ UNCHANGED <<op, files, form, dirs, disk>>

\* an unlock request arrives: with the file a protect request returned, or with a
\* document that was never protected
UnlockRequest ==
    /\ \/ /\ op = "protect" /\ pc = "done" /\ resp.status = 200
          /\ files' = <<Upload(NAME_A_PDF, MIME_PDF, resp.out)>>
          /\ hist' = [NoHist EXCEPT !.prior = [files |-> files, form |-> form]]
       \/ /\ op = "idle"
          /\ \E fs \in PdfUploads : files' = fs
          /\ hist' = hist
    /\ \E fm \in PasswordForms : form' = fm
    /\ op' = "unlock"
    /\ pc' = "start"
    /\ resp' = NoResponse
    /\ UNCHANGED <<dirs, disk>>

\* unlock_pdf()
unlock_pdf ==
    /\ op = "unlock" /\ pc = "start"
    /\ LET f == GetFile(files)
           pwd == PasswordField(form)
       IN  IF NotFile(f) \/ ~IsType(f, ALLOWED_PDF) \/ pwd = <<>>
           THEN resp' = Error(Msg("PDF and password required", <<>>), 400) /\ hist' = hist
           ELSE IF ~ReadablePdf(f.doc)
           THEN resp' = Unhandled /\ hist' = [hist EXCEPT !.reads = @ + 1]
           ELSE LET reader == f.doc
                IN  /\ hist' = [hist EXCEPT !.reads = @ + 1]
                    /\ IF reader.encrypted /\ ~Decrypt(reader, pwd)
                       THEN resp' = Error(Msg("Incorrect password", <<>>), 401)
                       ELSE resp' = SendFile(Pdf(reader.pages, FALSE, <<>>), "unlocked.pdf")
    /\ pc' = "done"
    /\ UNCHANGED <<op, files, form, dirs, disk>>

(***************************** scratch directories *************************)
\* open(path, "wb").write(content), a file of the same path replaced
Write(dk, path, content) ==
    [q \in DOMAIN dk \cup {path} |-> IF q = path THEN content ELSE dk[q]]

\* the name tempfile.TemporaryDirectory() makes: unused so far
NewDir(h) == h.created + 1

\* FileStorage.save(path) copies the stream from its current position to the end:
\* everything on a fresh stream, nothing once the stream has been read
StreamRest(f) == IF f.pos = 0 THEN f.doc ELSE EmptyFile

\* the upload after save(): its stream is at the end
Consumed(f) == [f EXCEPT !.pos = 1]

\* faulty variant: the directory is removed when the block returns, not when it raises
ExitDirs_onReturnOnly(ds, td, how) == IF how = "return" THEN ds \ {td} ELSE ds

\* leaving "with tempfile.TemporaryDirectory() as td", by return or by exception:
\* the directory is removed
ExitDirs(ds, td, how) == ds \ {td}

\* ... with everything in it
ExitDisk(dk, td) == [q \in {r \in DOMAIN dk : r[1] # td} |-> dk[q]]

(***************************** secure_filename *****************************)
Letters == Range(UpperCase) \cup Range(LowerCase)

\* the characters _filename_ascii_strip_re keeps
SafeChars == Letters \cup Digits \cup {"_", ".", "-"}

\* filename.replace(os.sep, " ")
ReplaceSep(s) == [k \in 1..Len(s) |-> IF s[k] = "/" THEN " " ELSE s[k]]

\* "_".join(filename.split()): the words, joined by single underscores
RECURSIVE JoinWords(_)
JoinWords(s) ==
    LET t == Strip(s) IN
    IF \A k \in 1..Len(t) : t[k] # " " THEN t
    ELSE LET k == CHOOSE j \in 1..Len(t) : t[j] = " " /\ \A m \in 1..(j - 1) : t[m] # " "
         IN SubSeq(t, 1, k - 1) \o <<"_">> \o JoinWords(SubSeq(t, k + 1, Len(t)))

\* str.strip("._")
RECURSIVE StripDots(_)
StripDots(s) ==
    IF s = <<>> THEN s
    ELSE IF Head(s) \in {".", "_"} THEN StripDots(Tail(s))
    ELSE IF s[Len(s)] \in {".", "_"} THEN StripDots(SubSeq(s, 1, Len(s) - 1))
    ELSE s

\* werkzeug.utils.secure_filename(filename)
secure_filename(filename) ==
    StripDots(SelectSeq(JoinWords(ReplaceSep(filename)), LAMBDA c : c \in SafeChars))

\* a or b, for strings
OrElse(a, b) == IF a # <<>> THEN a ELSE b

(***************************** compress ************************************)
NAME_INPUT_PDF == <<"i", "n", "p", "u", "t", ".", "p", "d", "f">>
NAME_COMPRESSED_PDF == <<"c", "o", "m", "p", "r", "e", "s", "s", "e", "d", ".", "p", "d", "f">>
NAME_IN_PDF == <<"i", "n", ".", "p", "d", "f">>
NAME_OUT_PDF == <<"o", "u", "t", ".", "p", "d", "f">>
NAME_SCAN == <<"s", "c", "a", "n">>
NAME_UPPER_PDF == <<"A", ".", "P", "D", "F">>
NAME_N_TXT == <<"n", ".", "t", "x", "t">>
TEXT_X_PDF == <<"t", "e", "x", "t", "/", "x", ".", "p", "d", "f">>

\* how the Ghostscript attempt can end
GsOutcomes == {"ok", "missing", "nonzero", "no_output"}

\* the declared names and types the single-PDF handlers are probed with
PdfDeclared ==
    {<<NAME_A_PDF, MIME_PDF>>, <<NAME_NOTES_TXT, TEXT_PLAIN>>, <<NAME_UPPER_PDF, <<>>>>,
     <<NAME_SCAN, MIME_PDF>>, <<NAME_N_TXT, TEXT_X_PDF>>, <<<<>>, MIME_PDF>>,
     <<NAME_COMPRESSED_PDF, MIME_PDF>>}

\* request.files of a request to a single-PDF handler
ServiceUploads ==
    {<<>>}
    \cup {<<Upload(d[1], d[2], SourcePdf(MaxPages))>> : d \in PdfDeclared}
    \cup {<<Upload(NAME_A_PDF, MIME_PDF, Garbage)>>}

\* a compress request arrives
CompressRequest ==
    /\ op = "idle"
    /\ \E fs \in ServiceUploads : files' = fs
    /\ form' = <<>>
    /\ op' = "compress"
    /\ pc' = "start"
    /\ UNCHANGED <<dirs, disk, resp, hist>>

\* compress_pdf(), the validation
compress_validate ==
    /\ op = "compress" /\ pc = "start"
    /\ LET f == GetFile(files)
       IN  IF NotFile(f) \/ ~IsType(f, ALLOWED_PDF)
           THEN resp' = Error(Msg("PDF required", <<>>), 400) /\ pc' = "done"
           ELSE resp' = resp /\ pc' = "gs_save"
    /\ UNCHANGED <<op, files, form, dirs, disk, hist>>

\* compress_pdf(), the Ghostscript attempt: the directory is made and the upload
\* saved under its sanitised name
compress_gs_save ==
    /\ op = "compress" /\ pc = "gs_save"
    /\ LET f == files[1]
           td == NewDir(hist)
           inp == <<td, OrElse(secure_filename(f.filename), NAME_INPUT_PDF)>>
       IN  /\ dirs' = dirs \cup {td}
           /\ disk' = Write(disk, inp, StreamRest(f))
           /\ files' = <<Consumed(f)>>
           /\ hist' = [hist EXCEPT !.created = @ + 1, !.saved = @ + 1, !.td = td]
    /\ pc' = "gs_run"
    /\ UNCHANGED <<op, form, resp>>

\* compress_pdf(), the Ghostscript attempt: gs runs, its output is read and sent;
\* any exception leaves the block and is swallowed
compress_gs_run ==
    /\ op = "compress" /\ pc = "gs_run"
    /\ LET f == files[1]
           td == hist.td
           inp == <<td, OrElse(secure_filename(f.filename), NAME_INPUT_PDF)>>
           outp == <<td, NAME_COMPRESSED_PDF>>
       IN  \E outcome \in GsOutcomes :
              \* gs writes its output only from a PDF it can read, and not onto its input
              /\ outcome = "ok" => ReadablePdf(disk[inp]) /\ inp # outp
              /\ LET after == IF outcome = "ok"
                              THEN Write(disk, outp, Produced("gs", disk[inp]))
                              ELSE disk
                     \* check_call raised, or open(outp) found no file
                     raised == outcome \in {"missing", "nonzero"} \/ outp \notin DOMAIN after
                 IN  /\ hist' = [hist EXCEPT !.reads = @ + 1, !.gs = outcome, !.td = 0]
                     /\ IF raised
                        THEN /\ resp' = resp
                             /\ dirs' = ExitDirs(dirs, td, "raise")
                             /\ pc' = "fallback_save"
                        ELSE /\ resp' = SendFile(after[outp], "compressed.pdf")
                             /\ dirs' = ExitDirs(dirs, td, "return")
                             /\ pc' = "done"
                     /\ disk' = ExitDisk(disk, td)
    /\ UNCHANGED <<op, files, form>>

\* compress_pdf(), the fallback: a second directory, the upload saved again
compress_fallback_save ==
    /\ op = "compress" /\ pc = "fallback_save"
    /\ LET f == files[1]
           td == NewDir(hist)
           inp == <<td, NAME_IN_PDF>>
       IN  /\ dirs' = dirs \cup {td}
           /\ disk' = Write(disk, inp, StreamRest(f))
           /\ files' = <<Consumed(f)>>
           /\ hist' = [hist EXCEPT !.created = @ + 1, !.saved = @ + 1, !.td = td]
    /\ pc' = "fallback_run"
    /\ UNCHANGED <<op, form, resp>>

\* compress_pdf(), the fallback: pikepdf opens what was saved and writes out.pdf,
\* which is read and sent; an exception leaves the handler
compress_fallback_run ==
    /\ op = "compress" /\ pc = "fallback_run"
    /\ LET td == hist.td
           inp == <<td, NAME_IN_PDF>>
           outp == <<td, NAME_OUT_PDF>>
       IN  /\ hist' = [hist EXCEPT !.reads = @ + 1, !.fallback_in = disk[inp], !.td = 0]
           /\ IF ReadablePdf(disk[inp])
              THEN /\ resp' = SendFile(Write(disk, outp, Produced("pikepdf", disk[inp]))[outp],
                                       "compressed.pdf")
                   /\ dirs' = ExitDirs(dirs, td, "return")
              ELSE /\ resp' = Unhandled
                   /\ dirs' = ExitDirs(dirs, td, "raise")
           /\ disk' = ExitDisk(disk, td)
    /\ pc' = "done"
    /\ UNCHANGED <<op, files, form>>

(***************************** merge ***************************************)
SeqsUpTo(S, n) == UNION {[1..k -> S] : k \in 0..n}

MergeChoices ==
    {Upload(NAME_A_PDF, MIME_PDF, SourcePdf(1)),
     Upload(NAME_SCAN, MIME_PDF, SourcePdf(2)),
     Upload(NAME_NOTES_TXT, TEXT_PLAIN, SourcePdf(1)),
     Upload(NAME_A_PDF, MIME_PDF, Garbage)}

\* a merge request arrives
MergeRequest ==
    /\ op = "idle"
    /\ \E fs \in SeqsUpTo(MergeChoices, MaxFiles) : files' = fs
    /\ form' = <<>>
    /\ op' = "merge"
    /\ pc' = "start"
    /\ UNCHANGED <<dirs, disk, resp, hist>>

\* merge_pdf(), up to the loop
merge_start ==
    /\ op = "merge" /\ pc = "start"
    /\ IF files = <<>>
       THEN resp' = Error(Msg("No files uploaded", <<>>), 400) /\ pc' = "done" /\ hist' = hist
       ELSE resp' = resp /\ pc' = "loop" /\ hist' = [hist EXCEPT !.i = 1]
    /\ UNCHANGED <<op, files, form, dirs, disk>>

\* merge_pdf(), one turn of "for f in files"
merge_iter ==
    /\ op = "merge" /\ pc = "loop" /\ hist.i <= Len(files)
    /\ LET f == files[hist.i]
       IN  IF ~IsType(f, ALLOWED_PDF)
           THEN /\ resp' = Error(Msg("Invalid file type: ", f.filename), 400)
                /\ pc' = "done" /\ hist' = hist
           ELSE IF ~ReadablePdf(f.doc)
           THEN /\ resp' = Unhandled
                /\ pc' = "done" /\ hist' = [hist EXCEPT !.reads = @ + 1]
           ELSE /\ resp' = resp
                /\ pc' = "loop"
                /\ hist' = [hist EXCEPT !.reads = @ + 1, !.i = @ + 1,
                                        !.writer = @ \o f.doc.pages]
    /\ UNCHANGED <<op, files, form, dirs, disk>>

\* merge_pdf(), after the loop
merge_write ==
    /\ op = "merge" /\ pc = "loop" /\ hist.i > Len(files)
    /\ resp' = SendFile(Pdf(hist.writer, FALSE, <<>>), "merged.pdf")
    /\ pc' = "done"
    /\ UNCHANGED <<op, files, form, dirs, disk, hist>>

(***************************** jpg-to-pdf **********************************)
NAME_A_JPG == <<"a", ".", "j", "p", "g">>
NAME_A_B_JPG == <<"a", " ", "b", ".", "j", "p", "g">>
NAME_A_UB_JPG == <<"a", "_", "b", ".", "j", "p", "g">>
NAME_IMG_1_JPG == <<"i", "m", "g", "_", "1", ".", "j", "p", "g">>
NAME_DOTS == <<".", ".", ".">>
IMG_PREFIX == <<"i", "m", "g", "_">>

\* f"img_{len(image_paths)}.jpg"
FallbackImageName(image_paths) == IMG_PREFIX \o IntToStr(Len(image_paths)) \o EXT_JPG

\* declared name, declared type, and whether the bytes are a JPEG
JpgChoices ==
    {<<NAME_A_JPG, MIME_JPEG, TRUE>>, <<NAME_A_B_JPG, MIME_JPEG, TRUE>>,
     <<NAME_A_UB_JPG, <<>>, TRUE>>, <<NAME_IMG_1_JPG, MIME_JPEG, TRUE>>,
     <<NAME_DOTS, MIME_JPEG, TRUE>>, <<NAME_NOTES_TXT, TEXT_PLAIN, TRUE>>,
     <<NAME_A_JPG, MIME_JPEG, FALSE>>}

\* a jpg-to-pdf request arrives; the k-th upload carries the k-th image
JpgToPdfRequest ==
    /\ op = "idle"
    /\ \E cs \in SeqsUpTo(JpgChoices, MaxFiles) :
          files' = [k \in 1..Len(cs) |->
                       Upload(cs[k][1], cs[k][2], IF cs[k][3] THEN Image(k) ELSE Garbage)]
    /\ form' = <<>>
    /\ op' = "jpg_to_pdf"
    /\ pc' = "start"
    /\ UNCHANGED <<dirs, disk, resp, hist>>

\* jpg_to_pdf(), up to the loop: the scratch directory is made
jpg_to_pdf_start ==
    /\ op = "jpg_to_pdf" /\ pc = "start"
    /\ IF files = <<>>
       THEN /\ resp' = Error(Msg("No images uploaded", <<>>), 400)
            /\ pc' = "done"
            /\ UNCHANGED <<dirs, hist>>
       ELSE /\ resp' = resp
            /\ pc' = "loop"
            /\ dirs' = dirs \cup {NewDir(hist)}
            /\ hist' = [hist EXCEPT !.created = @ + 1, !.td = NewDir(hist), !.i = 1]
    /\ UNCHANGED <<op, files, form, disk>>

\* jpg_to_pdf(), one turn of "for f in files"
jpg_to_pdf_iter ==
    /\ op = "jpg_to_pdf" /\ pc = "loop" /\ hist.i <= Len(files)
    /\ LET f == files[hist.i]
           td == hist.td
           path == <<td, OrElse(secure_filename(f.filename),
                                FallbackImageName(hist.image_paths))>>
       IN  IF ~IsType(f, ALLOWED_IMG)
           THEN /\ resp' = Error(Msg("Invalid image: ", f.filename), 400)
                /\ pc' = "done"
                /\ dirs' = ExitDirs(dirs, td, "return")
                /\ disk' = ExitDisk(disk, td)
                /\ hist' = [hist EXCEPT !.td = 0]
                /\ files' = files
           ELSE /\ resp' = resp
                /\ pc' = "loop"
                /\ dirs' = dirs
                /\ disk' = Write(disk, path, StreamRest(f))
                /\ files' = [files EXCEPT ![hist.i] = Consumed(f)]
                /\ hist' = [hist EXCEPT !.saved = @ + 1, !.i = @ + 1,
                                        !.image_paths = Append(@, path)]
    /\ UNCHANGED <<op, form>>

\* the image files img2pdf.convert is handed: what each path of the list holds
ReadPaths(dk, paths) == [k \in 1..Len(paths) |-> dk[paths[k]]]

\* jpg_to_pdf(), after the loop: img2pdf packs the files of image_paths, one page
\* each, and raises on a file that is no image
jpg_to_pdf_pack ==
    /\ op = "jpg_to_pdf" /\ pc = "loop" /\ hist.i > Len(files)
    /\ LET td == hist.td
           images == ReadPaths(disk, hist.image_paths)
       IN  /\ hist' = [hist EXCEPT !.reads = @ + 1, !.packed = images, !.td = 0]
           /\ IF \A k \in 1..Len(images) : images[k].kind = "jpg"
              THEN /\ resp' = SendFile(Pdf(images, FALSE, <<>>), "converted.pdf")
                   /\ dirs' = ExitDirs(dirs, td, "return")
              ELSE /\ resp' = Unhandled
                   /\ dirs' = ExitDirs(dirs, td, "raise")
           /\ disk' = ExitDisk(disk, td)
    /\ pc' = "done"
    /\ UNCHANGED <<op, files, form>>

(***************************** pdf-to-word **********************************)
NAME_CONVERTED_DOCX == <<"c", "o", "n", "v", "e", "r", "t", "e", "d", ".", "d", "o", "c", "x">>

\* how a library call on a readable document can end
ToolOutcomes == {"ok", "raises"}

\* a pdf-to-word or a page-number request arrives
ScratchPdfRequest ==
    /\ op = "idle"
    /\ \E fs \in ServiceUploads : files' = fs
    /\ form' = <<>>
    /\ op' \in {"pdf_to_word", "page_number"}
    /\ pc' = "start"
    /\ UNCHANGED <<dirs, disk, resp, hist>>

\* pdf_to_word(), the validation
pdf_to_word_validate ==
    /\ op = "pdf_to_word" /\ pc = "start"
    /\ LET f == GetFile(files)
       IN  IF NotFile(f) \/ ~IsType(f, ALLOWED_PDF)
           THEN resp' = Error(Msg("PDF required", <<>>), 400) /\ pc' = "done"
           ELSE resp' = resp /\ pc' = "save"
    /\ UNCHANGED <<op, files, form, dirs, disk, hist>>

\* pdf_to_word(): the directory is made and the upload saved as input.pdf
pdf_to_word_save ==
    /\ op = "pdf_to_word" /\ pc = "save"
    /\ LET f == files[1]
           td == NewDir(hist)
       IN  /\ dirs' = dirs \cup {td}
           /\ disk' = Write(disk, <<td, NAME_INPUT_PDF>>, StreamRest(f))
           /\ files' = <<Consumed(f)>>
           /\ hist' = [hist EXCEPT !.created = @ + 1, !.saved = @ + 1, !.td = td]
    /\ pc' = "convert"
    /\ UNCHANGED <<op, form, resp>>

\* pdf_to_word(): pdf2docx converts input.pdf to converted.docx, which is sent
pdf_to_word_convert ==
    /\ op = "pdf_to_word" /\ pc = "convert"
    /\ LET td == hist.td
           pdf_path == <<td, NAME_INPUT_PDF>>
           docx_path == <<td, NAME_CONVERTED_DOCX>>
       IN  \E outcome \in ToolOutcomes :
              /\ outcome = "ok" => ReadablePdf(disk[pdf_path])
              /\ hist' = [hist EXCEPT !.reads = @ + 1, !.td = 0]
              /\ IF outcome = "ok"
                 THEN /\ resp' = SendFile(Write(disk, docx_path,
                                                Produced("pdf2docx", disk[pdf_path]))[docx_path],
                                          "converted.docx")
                      /\ dirs' = ExitDirs(dirs, td, "return")
                 ELSE /\ resp' = Unhandled
                      /\ dirs' = ExitDirs(dirs, td, "raise")
              /\ disk' = ExitDisk(disk, td)
    /\ pc' = "done"
    /\ UNCHANGED <<op, files, form>>

(***************************** page-number **********************************)
\* page.merge_page(stamp): the page with the number str(i + 1) drawn on it
Stamped(page, number) == <<"stamped", page, number>>

\* add_page_numbers(), the validation
page_number_validate ==
    /\ op = "page_number" /\ pc = "start"
    /\ LET f == GetFile(files)
       IN  IF NotFile(f) \/ ~IsType(f, ALLOWED_PDF)
           THEN resp' = Error(Msg("PDF required", <<>>), 400) /\ pc' = "done"
           ELSE resp' = resp /\ pc' = "save"
    /\ UNCHANGED <<op, files, form, dirs, disk, hist>>

\* add_page_numbers(): the directory is made and the upload saved as in.pdf
page_number_save ==
    /\ op = "page_number" /\ pc = "save"
    /\ LET f == files[1]
           td == NewDir(hist)
       IN  /\ dirs' = dirs \cup {td}
           /\ disk' = Write(disk, <<td, NAME_IN_PDF>>, StreamRest(f))
           /\ files' = <<Consumed(f)>>
           /\ hist' = [hist EXCEPT !.created = @ + 1, !.saved = @ + 1, !.td = td]
    /\ pc' = "stamp"
    /\ UNCHANGED <<op, form, resp>>

\* add_page_numbers(): in.pdf is read, a stamp is made and merged for every page
page_number_stamp ==
    /\ op = "page_number" /\ pc = "stamp"
    /\ LET td == hist.td
           content == disk[<<td, NAME_IN_PDF>>]
       IN  /\ hist' = [hist EXCEPT !.reads = @ + 1, !.td = 0]
           /\ IF ReadablePdf(content)
              THEN /\ resp' = SendFile(Pdf([k \in 1..Len(content.pages) |->
                                               Stamped(content.pages[k], IntToStr(k))],
                                           FALSE, <<>>), "numbered.pdf")
                   /\ dirs' = ExitDirs(dirs, td, "return")
              ELSE /\ resp' = Unhandled
                   /\ dirs' = ExitDirs(dirs, td, "raise")
           /\ disk' = ExitDisk(disk, td)
    /\ pc' = "done"
    /\ UNCHANGED <<op, files, form>>

(***************************** pdf-to-jpg ***********************************)
PAGE_PREFIX == <<"p", "a", "g", "e", "_">>

\* f"page_{i+1}.jpg"
PageImageName(i) == PAGE_PREFIX \o IntToStr(i + 1) \o EXT_JPG

\* the dpi field: absent, a number, not a number
DpiForms == {<<>>, [dpi |-> <<"7", "2">>], [dpi |-> <<"a">>]}

\* int(request.form.get("dpi", 150)): the default is already an integer
DpiParses(fm) == "dpi" \notin DOMAIN fm \/ IntParse(fm.dpi).ok

\* a pdf-to-jpg request arrives
PdfToJpgRequest ==
    /\ op = "idle"
    /\ \E fs \in ServiceUploads : files' = fs
    /\ \E fm \in DpiForms : form' = fm
    /\ op' = "pdf_to_jpg"
    /\ pc' = "start"
    /\ UNCHANGED <<dirs, disk, resp, hist>>

\* pdf_to_jpg(): the dpi is parsed, then the upload is validated
pdf_to_jpg_validate ==
    /\ op = "pdf_to_jpg" /\ pc = "start"
    /\ LET f == GetFile(files)
       IN  IF ~DpiParses(form)
           THEN resp' = Unhandled /\ pc' = "done"
           ELSE IF NotFile(f) \/ ~IsType(f, ALLOWED_PDF)
           THEN resp' = Error(Msg("PDF required", <<>>), 400) /\ pc' = "done"
           ELSE resp' = resp /\ pc' = "save"
    /\ UNCHANGED <<op, files, form, dirs, disk, hist>>

\* pdf_to_jpg(): the directory is made and the upload saved as in.pdf
pdf_to_jpg_save ==
    /\ op = "pdf_to_jpg" /\ pc = "save"
    /\ LET f == files[1]
           td == NewDir(hist)
       IN  /\ dirs' = dirs \cup {td}
           /\ disk' = Write(disk, <<td, NAME_IN_PDF>>, StreamRest(f))
           /\ files' = <<Consumed(f)>>
           /\ hist' = [hist EXCEPT !.created = @ + 1, !.saved = @ + 1, !.td = td]
    /\ pc' = "convert"
    /\ UNCHANGED <<op, form, resp>>

\* pdf_to_jpg(): every page is rendered to page_<i+1>.jpg and the images are zipped
\* in page order
pdf_to_jpg_convert ==
    /\ op = "pdf_to_jpg" /\ pc = "convert"
    /\ LET td == hist.td
           content == disk[<<td, NAME_IN_PDF>>]
       IN  \E outcome \in ToolOutcomes :
              /\ outcome = "ok" => ReadablePdf(content)
              /\ hist' = [hist EXCEPT !.reads = @ + 1, !.td = 0]
              /\ IF outcome = "ok"
                 THEN /\ resp' = SendFile([kind |-> "zip",
                                           entries |-> [k \in 1..Len(content.pages) |->
                                                           PageImageName(k - 1)]],
                                          "images.zip")
                      /\ dirs' = ExitDirs(dirs, td, "return")
                 ELSE /\ resp' = Unhandled
                      /\ dirs' = ExitDirs(dirs, td, "raise")
              /\ disk' = ExitDisk(disk, td)
    /\ pc' = "done"
    /\ UNCHANGED <<op, files, form>>

(***************************** word-to-pdf **********************************)
NAME_INPUT_DOCX == <<"i", "n", "p", "u", "t", ".", "d", "o", "c", "x">>
NAME_R_DOCX == <<"r", ".", "d", "o", "c", "x">>
NAME_X_PDF == <<"x", ".", "p", "d", "f">>

\* os.path.splitext(name)[0]: the name up to its last dot, unless that dot only
\* follows other leading dots
SplitExtRoot(name) ==
    LET dots == {k \in 1..Len(name) : name[k] = "."}
    IN  IF dots = {} THEN name
        ELSE LET k == CHOOSE d \in dots : \A e \in dots : e <= d
             IN  IF \A j \in 1..(k - 1) : name[j] = "." THEN name
                 ELSE SubSeq(name, 1, k - 1)

\* how the LibreOffice call can end
SofficeOutcomes == {"ok", "missing", "nonzero", "no_output"}

WordUploads ==
    {<<>>, <<Upload(NAME_R_DOCX, MIME_DOC, Docx)>>,
     <<Upload(NAME_NOTES_TXT, TEXT_PLAIN, Docx)>>,
     <<Upload(NAME_X_PDF, MIME_DOC, Docx)>>,
     <<Upload(NAME_DOTS, MIME_DOC, Docx)>>,
     <<Upload(NAME_R_DOCX, <<>>, Garbage)>>}

\* a word-to-pdf request arrives
WordToPdfRequest ==
    /\ op = "idle"
    /\ \E fs \in WordUploads : files' = fs
    /\ form' = <<>>
    /\ op' = "word_to_pdf"
    /\ pc' = "start"
    /\ UNCHANGED <<dirs, disk, resp, hist>>

\* word_to_pdf(), the validation
word_to_pdf_validate ==
    /\ op = "word_to_pdf" /\ pc = "start"
    /\ LET f == GetFile(files)
       IN  IF NotFile(f) \/ ~IsType(f, ALLOWED_DOC)
           THEN resp' = Error(Msg("DOCX required", <<>>), 400) /\ pc' = "done"
           ELSE resp' = resp /\ pc' = "save"
    /\ UNCHANGED <<op, files, form, dirs, disk, hist>>

\* word_to_pdf(): the directory is made and the upload saved under its sanitised name
word_to_pdf_save ==
    /\ op = "word_to_pdf" /\ pc = "save"
    /\ LET f == files[1]
           td == NewDir(hist)
           in_path == <<td, OrElse(secure_filename(f.filename), NAME_INPUT_DOCX)>>
       IN  /\ dirs' = dirs \cup {td}
           /\ disk' = Write(disk, in_path, StreamRest(f))
           /\ files' = <<Consumed(f)>>
           /\ hist' = [hist EXCEPT !.created = @ + 1, !.saved = @ + 1, !.td = td]
    /\ pc' = "convert"
    /\ UNCHANGED <<op, form, resp>>

\* word_to_pdf(): soffice converts in_path into the directory, and the file named
\* after the input, with the extension .pdf, is sent
word_to_pdf_convert ==
    /\ op = "word_to_pdf" /\ pc = "convert"
    /\ LET f == files[1]
           td == hist.td
           in_path == <<td, OrElse(secure_filename(f.filename), NAME_INPUT_DOCX)>>
           out_path == <<td, SplitExtRoot(in_path[2]) \o EXT_PDF>>
       IN  \E outcome \in SofficeOutcomes :
              \* soffice writes its output only from a document it can read, and not
              \* onto its input
              /\ outcome = "ok" => disk[in_path].kind = "docx" /\ in_path # out_path
              /\ LET after == IF outcome = "ok"
                              THEN Write(disk, out_path, Produced("soffice", disk[in_path]))
                              ELSE disk
                 IN  /\ hist' = [hist EXCEPT !.reads = @ + 1, !.td = 0]
                     /\ IF outcome = "missing"
                        THEN /\ resp' = Error(Msg("LibreOffice not available on server. Use Dockerfile provided.", <<>>), 500)
                             /\ dirs' = ExitDirs(dirs, td, "return")
                        ELSE IF outcome = "nonzero" \/ out_path \notin DOMAIN after
                        THEN /\ resp' = Unhandled
                             /\ dirs' = ExitDirs(dirs, td, "raise")
                        ELSE /\ resp' = SendFile(after[out_path], "converted.pdf")
                             /\ dirs' = ExitDirs(dirs, td, "return")
                     /\ disk' = ExitDisk(disk, td)
    /\ pc' = "done"
    /\ UNCHANGED <<op, files, form>>

(***************************** the other handlers, probed ******************)
ProbeForms == {<<>>, [password |-> <<"p">>]}

\* a split, protect or unlock request arrives with one of the probing uploads
ProbeRequest ==
    /\ op = "idle"
    /\ \E fs \in ServiceUploads : files' = fs
    /\ \E fm \in ProbeForms : form' = fm
    /\ op' \in {"split", "protect", "unlock"}
    /\ pc' = "start"
    /\ UNCHANGED <<dirs, disk, resp, hist>>

(***************************** specifications ******************************)
Init ==
    /\ op = "idle"
    /\ pc = "idle"
    /\ files = <<>>
    /\ form = <<>>
    /\ dirs = {}
    /\ disk = <<>>
    /\ resp = NoResponse
    /\ hist = NoHist

NextSplit == SplitRequest \/ split_pdf

SpecSplit == Init /\ [][NextSplit]_vars

NextProtect == ProtectRequest \/ protect_pdf \/ UnlockRequest \/ unlock_pdf

SpecProtect == Init /\ [][NextProtect]_vars

NextService ==
    \/ CompressRequest \/ compress_validate \/ compress_gs_save \/ compress_gs_run
    \/ compress_fallback_save \/ compress_fallback_run
    \/ MergeRequest \/ merge_start \/ merge_iter \/ merge_write
    \/ JpgToPdfRequest \/ jpg_to_pdf_start \/ jpg_to_pdf_iter \/ jpg_to_pdf_pack
    \/ ScratchPdfRequest
    \/ pdf_to_word_validate \/ pdf_to_word_save \/ pdf_to_word_convert
    \/ page_number_validate \/ page_number_save \/ page_number_stamp
    \/ PdfToJpgRequest \/ pdf_to_jpg_validate \/ pdf_to_jpg_save \/ pdf_to_jpg_convert
    \/ WordToPdfRequest \/ word_to_pdf_validate \/ word_to_pdf_save \/ word_to_pdf_convert
    \/ ProbeRequest \/ split_pdf \/ protect_pdf \/ unlock_pdf

SpecService == Init /\ [][NextService]_vars

(***************************** claims: split *******************************)
\* the statement's own reading of a pages string, independent of parse_ranges:
\* the comma-separated tokens, each without its surrounding spaces
Tokens(s) == LET parts == SplitComma(s) IN [i \in 1..Len(parts) |-> Strip(parts[i])]

IsBareToken(t) == IsDigits(t)

\* the places where a token splits into A and B, both plain numbers
RangeSplits(t) ==
    {k \in 1..Len(t) : /\ t[k] = "-"
                       /\ IsDigits(Strip(SubSeq(t, 1, k - 1)))
                       /\ IsDigits(Strip(SubSeq(t, k + 1, Len(t))))}

IsRangeToken(t) == RangeSplits(t) # {}

RangeLow(t) == LET k == CHOOSE k \in RangeSplits(t) : TRUE
               IN DecimalValue(Strip(SubSeq(t, 1, k - 1)))
RangeHigh(t) == LET k == CHOOSE k \in RangeSplits(t) : TRUE
                IN DecimalValue(Strip(SubSeq(t, k + 1, Len(t))))

\* a non-empty string made only of valid tokens
ValidSpec(s) ==
    /\ s # <<>>
    /\ \A i \in 1..Len(Tokens(s)) : IsBareToken(Tokens(s)[i]) \/ IsRangeToken(Tokens(s)[i])

\* some token is neither empty, nor a number, nor a range
MalformedSpec(s) ==
    \E i \in 1..Len(Tokens(s)) :
        LET t == RemoveSpaces(Tokens(s)[i])
        IN  t # <<>> /\ ~IsBareToken(t) /\ ~IsRangeToken(t)

\* the pages p of 1..n that some token names
NamedPages(s, n) ==
    {p \in 1..n : \E i \in 1..Len(Tokens(s)) :
        LET t == Tokens(s)[i] IN
        \/ IsBareToken(t) /\ DecimalValue(t) = p
        \/ IsRangeToken(t) /\ RangeLow(t) <= p /\ p <= RangeHigh(t)}

\* the split handler has answered a request whose upload passed validation
SplitServed ==
    /\ op = "split" /\ pc = "done"
    /\ files # <<>> /\ IsType(files[1], ALLOWED_PDF)

SourcePages == Len(files[1].doc.pages)

\* C1: for every page count and every non-empty pages string made only of valid
\* tokens, the parser returns a strictly ascending sequence of distinct integers,
\* each within [1, N].
C1_AscendingInRange ==
    (SplitServed /\ "pages" \in DOMAIN form /\ ValidSpec(form.pages)) =>
        /\ resp.status = 200
        /\ \A k \in 1..Len(hist.selected) :
              /\ 1 <= hist.selected[k] /\ hist.selected[k] <= SourcePages
              /\ k > 1 => hist.selected[k - 1] < hist.selected[k]

\* "3,1" on a 3-page document: the pages come back in ascending order
C1_Witness ==
    /\ SplitServed
    /\ "pages" \in DOMAIN form /\ form.pages = <<"3", ",", "1">>
    /\ SourcePages = 3
    /\ hist.selected = <<1, 3>>

\* C2: for every valid pages string, the parser returns exactly the sorted set of
\* the pages of 1..N that a bare number names or a range A-B covers: a range
\* beyond the document is truncated, a bare number beyond it is dropped.
C2_ExactlyNamedPages ==
    (SplitServed /\ "pages" \in DOMAIN form /\ ValidSpec(form.pages)) =>
        hist.selected = Sorted(NamedPages(form.pages, SourcePages))

\* "2-33" on a 3-page document gives [2, 3]
C2_Witness ==
    /\ SplitServed
    /\ "pages" \in DOMAIN form /\ form.pages = <<"2", "-", "3", "3">>
    /\ SourcePages = 3
    /\ hist.selected = <<2, 3>>

\* C3: a pages string with a token that is neither a number nor a range makes the
\* split request fail with a 400, and no file is returned.
C3_MalformedIs400 ==
    (SplitServed /\ "pages" \in DOMAIN form /\ MalformedSpec(form.pages)) =>
        resp.status = 400 /\ resp.out = None

\* C9: the split output has exactly the selected pages of the source, in the
\* order of the selection; with the pages field absent, empty or blank the
\* selection is 1..N.
C9_OutputIsSelection ==
    LET blank == "pages" \notin DOMAIN form \/ Strip(form.pages) = <<>>
        S == IF blank THEN [k \in 1..SourcePages |-> k]
             ELSE Sorted(NamedPages(form.pages, SourcePages))
    IN  (SplitServed /\ (blank \/ ValidSpec(form.pages))) =>
            /\ resp.status = 200
            /\ resp.name = "split.pdf"
            /\ Len(resp.out.pages) = Len(S)
            /\ \A k \in 1..Len(S) : resp.out.pages[k] = files[1].doc.pages[S[k]]

\* a blank pages field on a 3-page document: all three pages, in order
C9_Witness ==
    /\ SplitServed
    /\ "pages" \in DOMAIN form /\ form.pages = <<" ">>
    /\ SourcePages = 3
    /\ resp.status = 200
    /\ resp.out.pages = <<<<"page", 1>>, <<"page", 2>>, <<"page", 3>>>>

(***************************** claims: protect, unlock *********************)
\* unlock has answered a request for the file that protect returned for document
\* D and submitted password P
UnlockedProtected ==
    /\ op = "unlock" /\ pc = "done"
    /\ hist.prior.files # <<>>

ProtectedDoc == hist.prior.files[1].doc
ProtectPassword == hist.prior.form.password
UnlockSubmitted == "password" \in DOMAIN form
UnlockPassword == FormGet(form, "password", <<>>)

\* C7 as stated: unlock of protect(D, P) with P returns a document with D's page
\* count, and with any submitted string other than P it fails with 401 and no file
\* (stated for the submitted strings that are not blank).
C7_AnyOtherStringIs401 ==
    UnlockedProtected /\ UnlockSubmitted /\ Strip(UnlockPassword) # <<>> =>
        IF UnlockPassword = ProtectPassword
        THEN resp.status = 200 /\ Len(resp.out.pages) = Len(ProtectedDoc.pages)
        ELSE resp.status = 401 /\ resp.out = None

\* C7 amended: both handlers strip the submitted password. Unlock of protect(D, P)
\* with Q returns a document with D's page count when Q and P are equal after
\* stripping; it fails with 401 and no file when stripped Q is non-empty and
\* differs from stripped P; with Q absent or blank it fails with 400 and no file.
C7_RoundTripStripped ==
    UnlockedProtected =>
        IF Strip(UnlockPassword) = Strip(ProtectPassword)
        THEN /\ resp.status = 200
             /\ resp.name = "unlocked.pdf"
             /\ ~resp.out.encrypted
             /\ Len(resp.out.pages) = Len(ProtectedDoc.pages)
        ELSE IF Strip(UnlockPassword) # <<>>
        THEN resp.status = 401 /\ resp.out = None
        ELSE resp.status = 400 /\ resp.out = None

\* a 3-page document protected with "p" and unlocked with " p"
C7_Witness ==
    /\ UnlockedProtected
    /\ ProtectPassword = <<"p">>
    /\ UnlockSubmitted /\ UnlockPassword = <<" ", "p">>
    /\ Len(ProtectedDoc.pages) = 3
    /\ files[1].doc.encrypted
    /\ resp.status = 200 /\ Len(resp.out.pages) = 3

(***************************** claims: the service *************************)
\* C4: in compress, whenever the Ghostscript attempt fails (binary missing,
\* non-zero exit, unreadable output), pikepdf is then run on the complete
\* uploaded document, and the request fails only if pikepdf fails on that
\* document too; otherwise compressed.pdf is returned.
C4_FallbackOnWholeUpload ==
    (/\ op = "compress" /\ pc = "done"
     /\ \/ hist.gs \in {"missing", "nonzero"}
        \/ hist.gs = "no_output" /\ hist.created = 2) =>
        /\ hist.fallback_in = files[1].doc
        /\ ReadablePdf(files[1].doc) => resp.status = 200 /\ resp.name = "compressed.pdf"

\* C5: for every handler that makes a scratch directory and every way it returns
\* (response, validation error from inside the scope, handled collaborator error,
\* unhandled exception), no scratch directory of the request exists once the
\* handler has returned; in compress, neither that of the failed Ghostscript
\* attempt nor that of the fallback.
C5_NoScratchLeft ==
    pc = "done" => dirs = {} /\ DOMAIN disk = {}

\* compress has made two directories, the fallback raised, and none is left
C5_Witness ==
    /\ op = "compress" /\ pc = "done"
    /\ hist.created = 2
    /\ hist.gs = "nonzero"
    /\ resp.status = 500
    /\ dirs = {}

\* the accepted-type set of the handler serving the request
AllowedOf(o) ==
    IF o = "word_to_pdf" THEN ALLOWED_DOC
    ELSE IF o = "jpg_to_pdf" THEN ALLOWED_IMG
    ELSE ALLOWED_PDF

\* a request with a validation defect: no upload, an upload without a name, or an
\* upload of an unacceptable declared type; protect and unlock also need a password
ValidationDefect ==
    \/ files = <<>>
    \/ \E k \in 1..Len(files) : ~IsType(files[k], AllowedOf(op))
    \/ op \notin {"merge", "jpg_to_pdf"} /\ files[1].filename = <<>>
    \/ op \in {"protect", "unlock"} /\ Strip(FormGet(form, "password", <<>>)) = <<>>

\* C6: a validation error is detected before any processing: on a request that
\* ends in one, no collaborator was called on an upload and no upload was written
\* to a scratch directory; and nothing else of the request fails first, so a
\* request with a validation defect ends in that 400.
C6_ValidationFirst ==
    (op # "idle" /\ pc = "done") =>
        /\ resp.status = 400 => hist.reads = 0 /\ hist.saved = 0
        /\ ValidationDefect => resp.status = 400

\* C8, the statement's reading of the accepted-type set: the markers that begin
\* with a dot are the extension markers, the others the MIME markers
ExtMarkers(allowed) == {x \in allowed : x[1] = "."}
MimeMarkers(allowed) == {x \in allowed : x[1] # "."}

AcceptedAsStated(f, allowed) ==
    \/ \E x \in ExtMarkers(allowed) : Contains(Lower(f.filename), x)
    \/ \E x \in MimeMarkers(allowed) : Contains(Lower(f.mimetype), x)

\* C8: the validator accepts an upload iff its lowercased name contains an
\* accepted extension marker or its lowercased declared type an accepted MIME
\* marker; every upload that has neither is answered with a 400 whose message
\* names that file, in every operation.
C8_ValidatorAsStated ==
    (op # "idle" /\ pc = "done" /\ Len(files) = 1 /\ files[1].filename # <<>>
     /\ DpiParses(form)) =>
        LET f == files[1] IN
        /\ IsType(f, AllowedOf(op)) <=> AcceptedAsStated(f, AllowedOf(op))
        /\ ~AcceptedAsStated(f, AllowedOf(op)) =>
              resp.status = 400 /\ resp.msg.arg = f.filename

\* C10: for every list of N >= 1 accepted images, whatever their names, the list
\* handed to the packer has N entries, the i-th holding the i-th uploaded image,
\* and output page i shows image i.
C10_PackedInUploadOrder ==
    (/\ op = "jpg_to_pdf" /\ pc = "done" /\ Len(files) >= 1
     /\ \A k \in 1..Len(files) :
           IsType(files[k], ALLOWED_IMG) /\ files[k].doc = Image(k)) =>
        /\ resp.status = 200
        /\ Len(hist.packed) = Len(files)
        /\ \A k \in 1..Len(files) : hist.packed[k] = Image(k)
        /\ resp.out.pages = [k \in 1..Len(files) |-> Image(k)]

(***************************** claims: scratch paths ***********************)
\* compress_pdf(): inp and outp of the Ghostscript attempt
GsInputPath == <<hist.td, OrElse(secure_filename(files[1].filename), NAME_INPUT_PDF)>>
GsOutputPath == <<hist.td, NAME_COMPRESSED_PDF>>

\* word_to_pdf(): in_path and out_path
SofficeInputPath == <<hist.td, OrElse(secure_filename(files[1].filename), NAME_INPUT_DOCX)>>
SofficeOutputPath == <<hist.td, SplitExtRoot(SofficeInputPath[2]) \o EXT_PDF>>

\* C11: in the Ghostscript attempt of compress and in word-to-pdf, for every
\* file name that passes validation, the path the upload is saved to differs
\* from the path the tool's output is read from, so the file returned is never
\* the saved upload itself.
C11_InputPathIsNotOutputPath ==
    /\ (op = "compress" /\ pc = "gs_run") =>
          GsInputPath \in DOMAIN disk /\ GsInputPath # GsOutputPath
    /\ (op = "word_to_pdf" /\ pc = "convert") =>
          SofficeInputPath \in DOMAIN disk /\ SofficeInputPath # SofficeOutputPath
    /\ (op \in {"compress", "word_to_pdf"} /\ pc = "done" /\ resp.status = 200) =>
          resp.out.kind = "produced"

====
